---- MODULE Spec2Model ----
(***************************************************************************)
(* protowhat/checks/check_funcs.py: the tree-operating checks (check_node, *)
(* check_field, has_code, has_equal_ast, has_parsed_ast) and the           *)
(* requires_ast guard, run as a chain of calls on a State.                 *)
(*                                                                         *)
(* Python values are tagged records:                                       *)
(*   None            [kind |-> "none"]                                     *)
(*   str             [kind |-> "str",  val |-> "..."]                      *)
(*   int             [kind |-> "int",  val |-> i]                          *)
(*   list            [kind |-> "list", items |-> <<...>>]                  *)
(*   AST node        [kind |-> "node", tag, fields, span]                  *)
(*   ParseError      [kind |-> "ParseError"]                               *)
(* Source text and repr() output are sequences of one-character strings,   *)
(* so that `in` on them is Python's substring test.                        *)
(***************************************************************************)
EXTENDS Integers, Sequences, FiniteSets, TLC

VARIABLES state, reports, pc, last, steps, root, trail

vars == <<state, reports, pc, last, steps, root, trail>>

----------------------------------------------------------------------------
(* Bounds *)

\* longest chain of checks applied to one root State
MaxChain == 3
\* largest index passed to check_node / check_field
MaxIndex == 2

----------------------------------------------------------------------------
(* Python values *)

None == [kind |-> "none"]
Str(s) == [kind |-> "str", val |-> s]
IntV(i) == [kind |-> "int", val |-> i]
List(xs) == [kind |-> "list", items |-> xs]
ParseError == [kind |-> "ParseError"]
Node(tag, fields, span) == [kind |-> "node", tag |-> tag, fields |-> fields, span |-> span]
Field(name, value) == [name |-> name, value |-> value]

MSG_CHECK_FALLBACK == Str("Your submission is incorrect. Try again!")

\* a stretch of source text
Text(chars) == [kind |-> "text", chars |-> chars]

\* Python truthiness: None, "" and the empty text are falsy
Truthy(v) ==
    CASE v.kind = "none" -> FALSE
      [] v.kind = "str" -> v.val # ""
      [] v.kind = "text" -> v.chars # <<>>
      [] OTHER -> TRUE

\* a or b
Or(a, b) == IF Truthy(a) THEN a ELSE b

\* outcome of evaluating an expression: a value, or the exception it raised
Val(v) == [exc |-> "none", val |-> v]
Exc(e) == [exc |-> e]

FieldNames(node) == {node.fields[i].name : i \in 1..Len(node.fields)}
FieldValue(node, name) ==
    LET i == CHOOSE j \in 1..Len(node.fields) : node.fields[j].name = name
    IN node.fields[i].value

\* getattr(obj, name) for a field name: only AST nodes carry fields
getattr(obj, name) ==
    IF obj.kind = "node" /\ name \in FieldNames(obj)
    THEN Val(FieldValue(obj, name))
    ELSE Exc("AttributeError")

\* obj[i] for an int i: lists and strings index (negative i counts from the
\* end), everything else is not subscriptable
getitem(obj, i) ==
    CASE obj.kind = "list" ->
             LET n == Len(obj.items) IN
             IF i >= 0 /\ i < n THEN Val(obj.items[i + 1])
             ELSE IF i < 0 /\ -i <= n THEN Val(obj.items[n + i + 1])
             ELSE Exc("IndexError")
      [] obj.kind = "str" ->
             \* scalars of the trees below are one character long
             IF i = 0 \/ i = -1 THEN Val(obj) ELSE Exc("IndexError")
      [] OTHER -> Exc("TypeError")

\* xs[i] on the list the dispatcher returns
ListIndex(xs, i) == getitem(List(xs), i)

\* whether needle occurs in hay as a contiguous run (Python: needle in hay)
Contains(hay, needle) ==
    \E k \in 0..(Len(hay) - Len(needle)) :
        \A j \in 1..Len(needle) : hay[k + j] = needle[j]

----------------------------------------------------------------------------
(* Trees and source texts.  Tags: "Q" script, "S" select statement,        *)
(* "I" identifier.  Fields: "b" body, "t" target, "f" from_clause,         *)
(* "w" where_clause, "v" value.                                            *)

Ident(c, at) == Node("I", <<Field("v", Str(c))>>, <<at, at>>)

\* select <t> [from <f>]
Select(t, f, lo, hi) ==
    Node("S", <<Field("t", t), Field("f", f), Field("w", None)>>, <<lo, hi>>)

Script(stmts, hi) == Node("Q", <<Field("b", List(stmts))>>, <<1, hi>>)

\* "s a f b"
TreeAB == Script(<<Select(Ident("a", 2), List(<<Ident("b", 4)>>), 1, 4)>>, 4)
\* "s a f c"
TreeAC == Script(<<Select(Ident("a", 2), List(<<Ident("c", 4)>>), 1, 4)>>, 4)
\* "s a": no from clause
TreeA == Script(<<Select(Ident("a", 2), None, 1, 2)>>, 2)
\* "s a f b c ; s b": two statements, two entries in the first from clause
TreeTwo == Script(<<Select(Ident("a", 2), List(<<Ident("b", 4), Ident("c", 5)>>), 1, 5),
                    Select(Ident("b", 8), None, 7, 8)>>, 8)

\* "s a f d": a from clause that is one node, not a list
TreeAD == Script(<<Select(Ident("a", 2), Ident("d", 4), 1, 4)>>, 4)

\* (source text, its parse); ParseError for text the grammar rejects, None
\* when no parser is in use
Programs ==
    { [code |-> <<"s", "a", "f", "b">>, ast |-> TreeAB],
      [code |-> <<"S", "a", "F", "b">>, ast |-> TreeAB],
      [code |-> <<"s", "a", "f", "c">>, ast |-> TreeAC],
      [code |-> <<"s", "a">>, ast |-> TreeA],
      [code |-> <<"s", "a", "f", "d">>, ast |-> TreeAD],
      [code |-> <<"s", "a", "f", "b", "c", ";", "s", "b">>, ast |-> TreeTwo],
      [code |-> <<"s", "a", "f", "f">>, ast |-> ParseError],
      [code |-> <<"s", "a", "f", "b">>, ast |-> None] }

----------------------------------------------------------------------------
(* The AST dispatcher the State carries (state.ast_dispatcher)             *)

\* _priority of a node class: the script is below every statement
TagPriority(tag) == IF tag = "Q" THEN 0 ELSE 1

RECURSIVE Visit(_, _, _), VisitFields(_, _, _), VisitItems(_, _, _)

\* nodes tagged name at or under v, in traversal order; the search goes
\* below a node only when prio is above the node's own priority
Visit(name, prio, v) ==
    CASE v.kind = "node" ->
             (IF v.tag = name THEN <<v>> ELSE <<>>)
             \o (IF prio > TagPriority(v.tag)
                 THEN VisitFields(name, prio, v.fields) ELSE <<>>)
      [] v.kind = "list" -> VisitItems(name, prio, v.items)
      [] OTHER -> <<>>

VisitFields(name, prio, fields) ==
    IF fields = <<>> THEN <<>>
    ELSE Visit(name, prio, Head(fields).value) \o VisitFields(name, prio, Tail(fields))

VisitItems(name, prio, items) ==
    IF items = <<>> THEN <<>>
    ELSE Visit(name, prio, Head(items)) \o VisitItems(name, prio, Tail(items))

\* state.ast_dispatcher(name, slice(None), tree, priority = priority): the
\* ordered sub-nodes of type name under tree (tree itself is never a match)
select(name, tree, priority) ==
    LET prio == IF priority = None THEN TagPriority(name) ELSE priority.val IN
    IF tree.kind = "node"
    THEN IF prio > TagPriority(tree.tag) THEN VisitFields(name, prio, tree.fields) ELSE <<>>
    ELSE Visit(name, prio, tree)

\* fmt.format(**placeholders): the template with its placeholders filled in;
\* the empty template formats to the empty string
Filled(fmt, placeholders) ==
    IF fmt = "" THEN Str("") ELSE [kind |-> "str", val |-> fmt, with |-> placeholders]

\* state.ast_dispatcher.describe(node, fmt, field = ..., index = ...): None
\* when the dialect has no speaker, else fmt filled in by the speaker
describe(dispatcher, node, fmt, field, index) ==
    IF ~dispatcher.speaker THEN None
    ELSE Filled(fmt, [node |-> node, field |-> field, index |-> index])

\* node._get_text(code): the source span of an AST node; other values have
\* no such method
get_text(v, code) ==
    IF v.kind = "node" THEN Val(Text(SubSeq(code, v.span[1], v.span[2])))
    ELSE Exc("AttributeError")

RECURSIVE repr(_), reprFields(_), reprItems(_)

\* repr(v): the structural representation, which leaves out the span
repr(v) ==
    CASE v.kind = "none" -> <<"N", "o", "n", "e">>
      [] v.kind = "str" -> <<"'", v.val, "'">>
      [] v.kind = "list" -> <<"[">> \o reprItems(v.items) \o <<"]">>
      [] v.kind = "node" -> <<v.tag, "(">> \o reprFields(v.fields) \o <<")">>
      [] OTHER -> <<"<", "E", ">">>

reprFields(fields) ==
    IF fields = <<>> THEN <<>>
    ELSE <<Head(fields).name, "=">> \o repr(Head(fields).value)
         \o (IF Len(fields) > 1 THEN <<",", " ">> ELSE <<>>)
         \o reprFields(Tail(fields))

reprItems(items) ==
    IF items = <<>> THEN <<>>
    ELSE repr(Head(items))
         \o (IF Len(items) > 1 THEN <<",", " ">> ELSE <<>>)
         \o reprItems(Tail(items))

\* snippets a check may pass as sql
Snippets == {Str("b"), Str("c")}

\* state.ast_dispatcher.ast.parse(sql, start) for start = "expression"
parse(sql, start) == Ident(sql.val, 1)

----------------------------------------------------------------------------
(* State *)

State(stu, sol, stu_code, sol_code, history, dispatcher) ==
    [student_ast |-> stu, solution_ast |-> sol,
     student_code |-> stu_code, solution_code |-> sol_code,
     history |-> history, ast_dispatcher |-> dispatcher]

Dispatchers == {[speaker |-> s] : s \in BOOLEAN}

RootStates ==
    {State(p.ast, q.ast, p.code, q.code, <<>>, d) :
        p \in Programs, q \in Programs, d \in Dispatchers}

\* state.to_child(student_ast = ..., solution_ast = ..., history = ...): a
\* copy of the State with these three fields replaced
to_child(st, stu, sol, history) ==
    [st EXCEPT !.student_ast = stu, !.solution_ast = sol, !.history = history]

\* state.get_ast_path(): the path the history describes
get_ast_path(st) == st.history

\* how a call ended: the State it returned (ret, none when it raised), the
\* exception it raised, what it handed to the Reporter, and how many child
\* States it built
Return(st, made) == [exc |-> "none", ret |-> <<st>>, msgs |-> <<>>, made |-> made]
Raise(e) == [exc |-> e, ret |-> <<>>, msgs |-> <<>>, made |-> 0]

\* state.do_test(msg): the Reporter records the failure and raises TestFail
do_test(st, msg) == [exc |-> "TestFail", ret |-> <<>>, msgs |-> <<msg>>, made |-> 0]

----------------------------------------------------------------------------
(* The checks *)

\* requires_ast with the parse check on the student tree only
requires_ast_student_only(st, f) ==
    IF st.student_ast = None \/ st.solution_ast = None THEN Raise("TypeError")
    ELSE IF st.student_ast = ParseError THEN Return(st, 0)
         ELSE f

\* requires_ast with the parse check ahead of the None check
requires_ast_skip_first(st, f) ==
    IF st.student_ast = ParseError \/ st.solution_ast = ParseError THEN Return(st, 0)
    ELSE IF st.student_ast = None \/ st.solution_ast = None THEN Raise("TypeError")
         ELSE f

\* @requires_ast: raise when a tree is None, skip the check when a parse
\* failed, else run the wrapped check (f is its outcome)
requires_ast(st, f) ==
    IF st.student_ast = None \/ st.solution_ast = None THEN Raise("TypeError")
    ELSE IF st.student_ast = ParseError \/ st.solution_ast = ParseError
         THEN Return(st, 0)
         ELSE f

\* check_node with the student side looked up before the solution side
check_node_student_first(st, name, index, missing_msg, priority) ==
    LET sol_stmt == ListIndex(select(name, st.solution_ast, priority), index.val)
        stu_stmt == ListIndex(select(name, st.student_ast, priority), index.val)
        action == [type |-> "check_node", name |-> name, index |-> index,
                   node |-> stu_stmt.val]
    IN  IF stu_stmt.exc = "IndexError"
        THEN do_test(st, Or(describe(st.ast_dispatcher, None, missing_msg, None, index),
                            MSG_CHECK_FALLBACK))
        ELSE IF sol_stmt.exc = "IndexError" THEN Raise("IndexError")
             ELSE Return(to_child(st, stu_stmt.val, sol_stmt.val,
                                  Append(st.history, action)), 1)

\* check_node that takes the first solution node whatever the index
check_node_first_solution(st, name, index, missing_msg, priority) ==
    LET sol_stmt_list == select(name, st.solution_ast, priority)
        sol_stmt == ListIndex(sol_stmt_list, index.val)
        stu_stmt == ListIndex(select(name, st.student_ast, priority), index.val)
        _msg == describe(st.ast_dispatcher, sol_stmt.val, missing_msg, None, index)
        action == [type |-> "check_node", name |-> name, index |-> index,
                   node |-> stu_stmt.val]
    IN  IF sol_stmt.exc = "IndexError" THEN Raise("IndexError")
        ELSE IF stu_stmt.exc = "IndexError"
             THEN do_test(st, Or(_msg, MSG_CHECK_FALLBACK))
             ELSE Return(to_child(st, stu_stmt.val, sol_stmt_list[1],
                                  Append(st.history, action)), 1)

\* check_node that describes the student tree in place of the solution node
check_node_describe_student(st, name, index, missing_msg, priority) ==
    LET sol_stmt == ListIndex(select(name, st.solution_ast, priority), index.val)
        stu_stmt == ListIndex(select(name, st.student_ast, priority), index.val)
        _msg == describe(st.ast_dispatcher, st.student_ast, missing_msg, None, index)
        action == [type |-> "check_node", name |-> name, index |-> index,
                   node |-> stu_stmt.val]
    IN  IF sol_stmt.exc = "IndexError" THEN Raise("IndexError")
        ELSE IF stu_stmt.exc = "IndexError"
             THEN do_test(st, Or(_msg, MSG_CHECK_FALLBACK))
             ELSE Return(to_child(st, stu_stmt.val, sol_stmt.val,
                                  Append(st.history, action)), 1)

\* the body of check_node
check_node_body(st, name, index, missing_msg, priority) ==
    LET sol_stmt_list == select(name, st.solution_ast, priority)
        sol_stmt == ListIndex(sol_stmt_list, index.val)
        stu_stmt_list == select(name, st.student_ast, priority)
        stu_stmt == ListIndex(stu_stmt_list, index.val)
        _msg == describe(st.ast_dispatcher, sol_stmt.val, missing_msg, None, index)
        action == [type |-> "check_node", name |-> name, index |-> index,
                   node |-> stu_stmt.val]
    IN  IF sol_stmt.exc = "IndexError" THEN Raise("IndexError")
        ELSE IF stu_stmt.exc = "IndexError"
             THEN do_test(st, Or(_msg, MSG_CHECK_FALLBACK))
             ELSE Return(to_child(st, stu_stmt.val, sol_stmt.val,
                                  Append(st.history, action)), 1)

check_node(st, name, index, missing_msg, priority) ==
    requires_ast(st, check_node_body(st, name, index, missing_msg, priority))

\* getattr(obj, name), then [index] when an index is given
Lookup(obj, name, index) ==
    LET attr == getattr(obj, name) IN
    IF attr.exc # "none" \/ index = None THEN attr
    ELSE getitem(attr.val, index.val)

\* check_field whose no-value report does not stop the call: the child
\* State is built and returned all the same
check_field_report_and_go_on(st, name, index, missing_msg) ==
    LET sol_attr == Lookup(st.solution_ast, name, index)
        stu_attr == Lookup(st.student_ast, name, index)
        _msg == describe(st.ast_dispatcher, st.student_ast, missing_msg, Str(name), index)
        action == [type |-> "check_field", name |-> name, index |-> index]
        child == to_child(st, stu_attr.val, sol_attr.val, Append(st.history, action))
    IN  IF sol_attr.exc # "none" THEN Raise(sol_attr.exc)
        ELSE IF stu_attr.exc # "none"
             THEN do_test(st, Or(_msg, MSG_CHECK_FALLBACK))
        ELSE IF stu_attr.val = None /\ sol_attr.val # None
             THEN [exc |-> "none", ret |-> <<child>>, msgs |-> <<_msg>>, made |-> 1]
             ELSE Return(child, 1)

\* check_field with the student side looked up before the solution side
check_field_student_first(st, name, index, missing_msg) ==
    LET sol_attr == Lookup(st.solution_ast, name, index)
        stu_attr == Lookup(st.student_ast, name, index)
        _msg == describe(st.ast_dispatcher, st.student_ast, missing_msg, Str(name), index)
        action == [type |-> "check_field", name |-> name, index |-> index]
    IN  IF stu_attr.exc # "none"
        THEN do_test(st, Or(_msg, MSG_CHECK_FALLBACK))
        ELSE IF sol_attr.exc # "none" THEN Raise(sol_attr.exc)
        ELSE IF stu_attr.val = None /\ sol_attr.val # None
             THEN do_test(st, _msg)
             ELSE Return(to_child(st, stu_attr.val, sol_attr.val,
                                  Append(st.history, action)), 1)

\* check_field that catches only IndexError on the student side
check_field_index_error_only(st, name, index, missing_msg) ==
    LET sol_attr == Lookup(st.solution_ast, name, index)
        stu_attr == Lookup(st.student_ast, name, index)
        _msg == describe(st.ast_dispatcher, st.student_ast, missing_msg, Str(name), index)
        action == [type |-> "check_field", name |-> name, index |-> index]
    IN  IF sol_attr.exc # "none" THEN Raise(sol_attr.exc)
        ELSE IF stu_attr.exc = "IndexError"
             THEN do_test(st, Or(_msg, MSG_CHECK_FALLBACK))
        ELSE IF stu_attr.exc # "none" THEN Raise(stu_attr.exc)
        ELSE IF stu_attr.val = None /\ sol_attr.val # None
             THEN do_test(st, _msg)
             ELSE Return(to_child(st, stu_attr.val, sol_attr.val,
                                  Append(st.history, action)), 1)

\* check_field that hands the parent's history to the child as it is
check_field_keep_history(st, name, index, missing_msg) ==
    LET sol_attr == Lookup(st.solution_ast, name, index)
        stu_attr == Lookup(st.student_ast, name, index)
        _msg == describe(st.ast_dispatcher, st.student_ast, missing_msg, Str(name), index)
    IN  IF sol_attr.exc # "none" THEN Raise(sol_attr.exc)
        ELSE IF stu_attr.exc # "none"
             THEN do_test(st, Or(_msg, MSG_CHECK_FALLBACK))
        ELSE IF stu_attr.val = None /\ sol_attr.val # None
             THEN do_test(st, _msg)
             ELSE Return(to_child(st, stu_attr.val, sol_attr.val, st.history), 1)

\* check_field whose Action leaves the index out
check_field_record_no_index(st, name, index, missing_msg) ==
    LET sol_attr == Lookup(st.solution_ast, name, index)
        stu_attr == Lookup(st.student_ast, name, index)
        _msg == describe(st.ast_dispatcher, st.student_ast, missing_msg, Str(name), index)
        action == [type |-> "check_field", name |-> name, index |-> None]
    IN  IF sol_attr.exc # "none" THEN Raise(sol_attr.exc)
        ELSE IF stu_attr.exc # "none"
             THEN do_test(st, Or(_msg, MSG_CHECK_FALLBACK))
        ELSE IF stu_attr.val = None /\ sol_attr.val # None
             THEN do_test(st, _msg)
             ELSE Return(to_child(st, stu_attr.val, sol_attr.val,
                                  Append(st.history, action)), 1)

\* check_field without the test for a student value of None
check_field_no_marker_check(st, name, index, missing_msg) ==
    LET sol_attr == Lookup(st.solution_ast, name, index)
        stu_attr == Lookup(st.student_ast, name, index)
        _msg == describe(st.ast_dispatcher, st.student_ast, missing_msg, Str(name), index)
        action == [type |-> "check_field", name |-> name, index |-> index]
    IN  IF sol_attr.exc # "none" THEN Raise(sol_attr.exc)
        ELSE IF stu_attr.exc # "none"
             THEN do_test(st, Or(_msg, MSG_CHECK_FALLBACK))
             ELSE Return(to_child(st, stu_attr.val, sol_attr.val,
                                  Append(st.history, action)), 1)

\* the body of check_field
check_field_body(st, name, index, missing_msg) ==
    LET sol_attr == Lookup(st.solution_ast, name, index)
        stu_attr == Lookup(st.student_ast, name, index)
        _msg == describe(st.ast_dispatcher, st.student_ast, missing_msg, Str(name), index)
        action == [type |-> "check_field", name |-> name, index |-> index]
    IN  \* only IndexError is caught (and raised again); the others propagate
        IF sol_attr.exc # "none" THEN Raise(sol_attr.exc)
        ELSE IF stu_attr.exc # "none"
             THEN do_test(st, Or(_msg, MSG_CHECK_FALLBACK))
        ELSE IF stu_attr.val = None /\ sol_attr.val # None
             THEN do_test(st, _msg)
             ELSE Return(to_child(st, stu_attr.val, sol_attr.val,
                                  Append(st.history, action)), 1)

check_field(st, name, index, missing_msg) ==
    requires_ast(st, check_field_body(st, name, index, missing_msg))

\* get_str(ast, code, sql), local to has_equal_ast
get_str(ast, code, sql) ==
    IF Truthy(sql) THEN sql
    ELSE IF ast.kind = "str" THEN ast
    ELSE LET t == get_text(ast, code) IN
         IF t.exc = "none" THEN t.val ELSE None

\* has_equal_ast that compares the source texts of the two foci
has_equal_ast_by_text(st, msg, sql, start, exact) ==
    LET sol_ast == IF sql = None THEN st.solution_ast ELSE parse(sql, start)
        stu_rep == get_str(st.student_ast, st.student_code, None)
        sol_rep == get_str(sol_ast, st.solution_code, None)
        _msg == Filled(msg, [ast_path |-> get_ast_path(st), extra |-> Str("")])
    IN  IF exact /\ sol_rep # stu_rep THEN do_test(st, Or(_msg, MSG_CHECK_FALLBACK))
        ELSE IF ~exact /\ ~Contains(repr(st.student_ast), repr(sol_ast))
             THEN do_test(st, Or(_msg, MSG_CHECK_FALLBACK))
             ELSE Return(st, 0)

\* has_equal_ast whose containment test has its operands swapped
has_equal_ast_swapped(st, msg, sql, start, exact) ==
    LET sol_ast == IF sql = None THEN st.solution_ast ELSE parse(sql, start)
        stu_rep == repr(st.student_ast)
        sol_rep == repr(sol_ast)
        _msg == Filled(msg, [ast_path |-> get_ast_path(st), extra |-> Str("")])
    IN  IF exact /\ sol_rep # stu_rep THEN do_test(st, Or(_msg, MSG_CHECK_FALLBACK))
        ELSE IF ~exact /\ ~Contains(sol_rep, stu_rep)
             THEN do_test(st, Or(_msg, MSG_CHECK_FALLBACK))
             ELSE Return(st, 0)

\* the body of has_equal_ast
has_equal_ast_body(st, msg, sql, start, exact) ==
    LET sol_ast == IF sql = None THEN st.solution_ast ELSE parse(sql, start)
        stu_rep == repr(st.student_ast)
        sol_rep == repr(sol_ast)
        sol_str == get_str(st.solution_ast, st.solution_code, sql)
        _msg == Filled(msg, [ast_path |-> get_ast_path(st),
                             extra |-> IF Truthy(sol_str) THEN sol_str ELSE Str("")])
    IN  IF exact /\ sol_rep # stu_rep THEN do_test(st, Or(_msg, MSG_CHECK_FALLBACK))
        ELSE IF ~exact /\ ~Contains(stu_rep, sol_rep)
             THEN do_test(st, Or(_msg, MSG_CHECK_FALLBACK))
             ELSE Return(st, 0)

has_equal_ast(st, msg, sql, start, exact) ==
    requires_ast(st, has_equal_ast_body(st, msg, sql, start, exact))

\* re.search(pattern, chars) for patterns of literal characters and "."
Search(pattern, chars) ==
    \E k \in 0..(Len(chars) - Len(pattern)) :
        \A j \in 1..Len(pattern) : pattern[j] = "." \/ chars[k + j] = pattern[j]

\* has_code put behind the requires_ast guard
has_code_guarded(st, text, msg, fixed) ==
    LET stu_text == IF st.student_ast # ParseError
                    THEN get_text(st.student_ast, st.student_code)
                    ELSE Val(Text(st.student_code))
        _msg == Filled(msg, [ast_path |-> get_ast_path(st), text |-> text])
        res == IF fixed THEN Contains(stu_text.val.chars, text)
               ELSE Search(text, stu_text.val.chars)
    IN  requires_ast(st, IF stu_text.exc # "none" THEN Raise(stu_text.exc)
                         ELSE IF ~res THEN do_test(st, _msg)
                         ELSE Return(st, 0))

has_code(st, text, msg, fixed) ==
    LET stu_ast == st.student_ast
        stu_code == st.student_code
        stu_text == IF stu_ast # ParseError THEN get_text(stu_ast, stu_code)
                    ELSE Val(Text(stu_code))
        _msg == Filled(msg, [ast_path |-> get_ast_path(st), text |-> text])
        res == IF fixed THEN Contains(stu_text.val.chars, text)
               ELSE Search(text, stu_text.val.chars)
    IN  IF stu_text.exc # "none" THEN Raise(stu_text.exc)
        ELSE IF ~res THEN do_test(st, _msg)
        ELSE Return(st, 0)

\* has_parsed_ast that looks at the student tree only
has_parsed_ast_student_only(st) ==
    IF st.student_ast = ParseError
    THEN do_test(st, Str("AST did not parse"))
    ELSE Return(st, 0)

has_parsed_ast(st) ==
    IF st.student_ast = ParseError \/ st.solution_ast = ParseError
    THEN do_test(st, Str("AST did not parse"))
    ELSE Return(st, 0)

----------------------------------------------------------------------------
(* A chain of checks on a root State.  pc is "running" while the chain     *)
(* goes on, "failed" once a check raised TestFail through the Reporter,    *)
(* "fatal" once a check raised any other exception.                        *)

MISSING_NODE == "Could not find the {index}{node_name}."
MISSING_FIELD == "Could not find the {index}{field_name} of the {node_name}."
MSG_CODE == "Check the {ast_path}. The checker expected to find {text}."
MSG_AST == "Check the {ast_path}.{extra}"

NodeNames == {"S", "I"}
FieldNameArgs == {"b", "t", "f", "w", "v"}
Indexes == {IntV(i) : i \in -1..MaxIndex}
Priorities == {None, IntV(99)}
Patterns == {<<"b">>, <<"s", ".">>, <<".", "f">>}

NoCall == [op |-> "none", args |-> <<>>, input |-> None, res |-> Raise("none")]

Init ==
    /\ state \in RootStates
    /\ reports = <<>>
    /\ pc = "running"
    /\ last = NoCall
    /\ steps = 0
    /\ root = state
    /\ trail = <<>>

\* a check_node or check_field call that went through: it returned, and
\* not because the guard skipped it
Narrowed(op, r) ==
    /\ op \in {"check_node", "check_field"}
    /\ r.exc = "none"
    /\ state.student_ast # ParseError
    /\ state.solution_ast # ParseError

\* one call of the chain, with outcome r; root is the State the chain began
\* on and trail the priority argument of each call that narrowed the focus
\* so far (None for check_field, which has none)
Call(op, args, r) ==
    /\ pc = "running"
    /\ steps < MaxChain
    /\ steps' = steps + 1
    /\ last' = [op |-> op, args |-> args, input |-> state, res |-> r]
    /\ reports' = reports \o r.msgs
    /\ state' = IF r.ret # <<>> THEN r.ret[1] ELSE state
    /\ pc' = CASE r.exc = "none" -> "running"
               [] r.exc = "TestFail" -> "failed"
               [] OTHER -> "fatal"
    /\ root' = root
    /\ trail' = IF Narrowed(op, r)
                THEN Append(trail, IF op = "check_node" THEN args.priority ELSE None)
                ELSE trail

CheckNode ==
    \E name \in NodeNames, index \in Indexes, priority \in Priorities,
       missing_msg \in {MISSING_NODE, ""} :
        Call("check_node",
             [name |-> name, index |-> index, priority |-> priority,
              missing_msg |-> missing_msg],
             check_node(state, name, index, missing_msg, priority))

CheckField ==
    \E name \in FieldNameArgs, index \in Indexes \cup {None},
       missing_msg \in {MISSING_FIELD, ""} :
        Call("check_field",
             [name |-> name, index |-> index, missing_msg |-> missing_msg],
             check_field(state, name, index, missing_msg))

HasEqualAst ==
    \E sql \in Snippets \cup {None}, exact \in BOOLEAN :
        Call("has_equal_ast", [sql |-> sql, exact |-> exact],
             has_equal_ast(state, MSG_AST, sql, "expression", exact))

HasCode ==
    \E text \in Patterns, fixed \in BOOLEAN :
        Call("has_code", [text |-> text, fixed |-> fixed],
             has_code(state, text, MSG_CODE, fixed))

HasParsedAst ==
    Call("has_parsed_ast", <<>>, has_parsed_ast(state))

Next == CheckNode \/ CheckField \/ HasEqualAst \/ HasCode \/ HasParsedAst

Spec == Init /\ [][Next]_vars

----------------------------------------------------------------------------
(* Properties *)

Guarded == {"check_node", "check_field", "has_equal_ast"}

Absent(st) == st.student_ast = None \/ st.solution_ast = None
ParseFailed(st) == st.student_ast = ParseError \/ st.solution_ast = ParseError
\* both trees are there and parsed: the guard lets the check run
BothReal(st) == ~Absent(st) /\ ~ParseFailed(st)

Called(op) == last.op = op
Fatal(r) == r.exc \notin {"none", "TestFail"}
\* the call raised, reported nothing and built nothing
FatalOnly(r) == Fatal(r) /\ r.msgs = <<>> /\ r.ret = <<>> /\ r.made = 0
\* the call reported exactly msg, raised TestFail and built nothing
ReportedOnly(r, msg) ==
    r.exc = "TestFail" /\ r.msgs = <<msg>> /\ r.ret = <<>> /\ r.made = 0

\* C1. Guard skip: a guarded check called on a State with a ParseError on
\* either side, and no tree absent, returns that very State, reports nothing
\* and raises nothing.
C1_GuardSkip ==
    (last.op \in Guarded /\ ParseFailed(last.input) /\ ~Absent(last.input))
    => /\ last.res = Return(last.input, 0)
       /\ state = last.input
       /\ reports = <<>>
       /\ pc = "running"

C1_Witness ==
    /\ last.op \in Guarded
    /\ last.input.student_ast.kind = "node"
    /\ last.input.solution_ast = ParseError
    /\ last.res.exc = "none"

\* C2. Short-circuit: a call that reports a failure returns no State and
\* builds no child, the chain's State stays the one it was called on, no
\* call follows a report, and so a chain reports at most once.
C2_ShortCircuit ==
    /\ [](/\ Len(reports) <= 1
          /\ reports # <<>> =>
                /\ pc = "failed"
                /\ last.res.msgs = reports
                /\ last.res.ret = <<>>
                /\ last.res.made = 0
                /\ state = last.input)
    /\ [][reports = <<>>]_vars

C2_Witness ==
    /\ Len(reports) = 1
    /\ steps = 2
    /\ last.op = "check_field"

\* C3. check_node authoring error: with both trees real and the index at or
\* past the number of matching solution sub-nodes, check_node raises
\* IndexError, reports nothing and builds no child, whatever the student has.
C3_CheckNodeAuthoringError ==
    (/\ Called("check_node")
     /\ BothReal(last.input)
     /\ last.args.index.val >=
            Len(select(last.args.name, last.input.solution_ast, last.args.priority)))
    => /\ last.res = Raise("IndexError")
       /\ pc = "fatal"
       /\ reports = <<>>
       /\ state = last.input

\* the student does have the node the solution lacks
C3_Witness ==
    /\ Called("check_node")
    /\ BothReal(last.input)
    /\ last.args.index.val = 1
    /\ Len(select(last.args.name, last.input.solution_ast, last.args.priority)) = 1
    /\ Len(select(last.args.name, last.input.student_ast, last.args.priority)) = 2
    /\ pc = "fatal"

\* C4. check_node success: with both trees real and 0 <= i < the number of
\* matching sub-nodes on both sides, check_node reports nothing and returns
\* one child State: solution focus the i-th match under the solution tree,
\* student focus the i-th match under the student tree, history the
\* parent's plus one check_node Action with name, index and student node.
C4_CheckNodeSuccess ==
    (/\ Called("check_node")
     /\ BothReal(last.input)
     /\ last.args.index.val >= 0
     /\ last.args.index.val <
            Len(select(last.args.name, last.input.solution_ast, last.args.priority))
     /\ last.args.index.val <
            Len(select(last.args.name, last.input.student_ast, last.args.priority)))
    => LET i == last.args.index.val + 1
           sol == select(last.args.name, last.input.solution_ast, last.args.priority)[i]
           stu == select(last.args.name, last.input.student_ast, last.args.priority)[i]
       IN  /\ last.res.exc = "none"
           /\ last.res.msgs = <<>>
           /\ last.res.made = 1
           /\ last.res.ret = <<state>>
           /\ reports = <<>>
           /\ pc = "running"
           /\ state.solution_ast = sol
           /\ state.student_ast = stu
           /\ sol.tag = last.args.name /\ stu.tag = last.args.name
           /\ state.history =
                  Append(last.input.history,
                         [type |-> "check_node", name |-> last.args.name,
                          index |-> last.args.index, node |-> stu])
           /\ state.student_code = last.input.student_code
           /\ state.solution_code = last.input.solution_code

\* the second statement of a two-statement script, on both sides
C4_Witness ==
    /\ Called("check_node")
    /\ last.args.index.val = 1
    /\ last.res.made = 1
    /\ state.student_ast.kind = "node"
    /\ state.student_ast # last.input.student_ast
    /\ Len(select("S", last.input.solution_ast, None)) = 2
    /\ state.solution_ast = select("S", last.input.solution_ast, None)[2]

\* the student side lacks the node check_node asks for, the solution has it
NodeMissed ==
    /\ Called("check_node")
    /\ BothReal(last.input)
    /\ ListIndex(select(last.args.name, last.input.solution_ast, last.args.priority),
                 last.args.index.val).exc = "none"
    /\ ListIndex(select(last.args.name, last.input.student_ast, last.args.priority),
                 last.args.index.val).exc = "IndexError"

\* the dispatcher's description of the solution node check_node expected
NodeDescription ==
    describe(last.input.ast_dispatcher,
             ListIndex(select(last.args.name, last.input.solution_ast, last.args.priority),
                       last.args.index.val).val,
             last.args.missing_msg, None, last.args.index)

\* C5 as stated: on a student miss check_node reports exactly one failure
\* and raises no other error; the message is the dispatcher's description of
\* the expected solution node, or the fallback when the dispatcher returns
\* nothing (None).
C5_AsStated ==
    NodeMissed
    => /\ ReportedOnly(last.res, IF NodeDescription = None THEN MSG_CHECK_FALLBACK
                                 ELSE NodeDescription)
       /\ reports = last.res.msgs
       /\ pc = "failed"

\* C5. check_node student miss: on a student miss check_node reports
\* exactly one failure and raises no other error; the message is the
\* dispatcher's description of the expected solution node, or the fallback
\* when that description is None or the empty string.
C5_CheckNodeStudentMiss ==
    NodeMissed
    => /\ ReportedOnly(last.res,
                       IF NodeDescription = None \/ NodeDescription = Str("")
                       THEN MSG_CHECK_FALLBACK ELSE NodeDescription)
       /\ reports = last.res.msgs
       /\ pc = "failed"

\* a student miss described by the dispatcher, and one it does not describe
C5_Witness ==
    /\ NodeMissed
    /\ last.input.ast_dispatcher.speaker
    /\ last.args.missing_msg # ""
    /\ last.res.msgs = <<NodeDescription>>
    /\ last.input.history # <<>>

\* C6. check_field authoring error: with both trees real, a solution-side
\* lookup that fails (field missing, or a given index that the field value
\* does not take) makes check_field raise, report nothing and build no
\* child, whatever the student node is.
C6_CheckFieldAuthoringError ==
    (/\ Called("check_field")
     /\ BothReal(last.input)
     /\ Lookup(last.input.solution_ast, last.args.name, last.args.index).exc # "none")
    => /\ FatalOnly(last.res)
       /\ last.res.exc \in {"AttributeError", "IndexError", "TypeError"}
       /\ pc = "fatal"
       /\ reports = <<>>
       /\ state = last.input

\* the index is out of range for the solution and in range for the student
C6_Witness ==
    /\ Called("check_field")
    /\ BothReal(last.input)
    /\ last.args.index # None
    /\ Lookup(last.input.solution_ast, last.args.name, last.args.index).exc = "IndexError"
    /\ Lookup(last.input.student_ast, last.args.name, last.args.index).exc = "none"
    /\ pc = "fatal"

\* the solution-side lookup of check_field succeeds, the student-side fails
FieldMissed ==
    /\ Called("check_field")
    /\ BothReal(last.input)
    /\ Lookup(last.input.solution_ast, last.args.name, last.args.index).exc = "none"
    /\ Lookup(last.input.student_ast, last.args.name, last.args.index).exc # "none"

\* the dispatcher's description check_field asks for
FieldDescription ==
    describe(last.input.ast_dispatcher, last.input.student_ast,
             last.args.missing_msg, Str(last.args.name), last.args.index)

\* C7. check_field student miss: when the solution-side lookup succeeds and
\* the student-side lookup fails for whatever reason, check_field reports
\* exactly one failure, made with the dispatcher's describe, raises no other
\* error and builds no child.
C7_CheckFieldStudentMiss ==
    FieldMissed
    => /\ ReportedOnly(last.res, Or(FieldDescription, MSG_CHECK_FALLBACK))
       /\ reports = last.res.msgs
       /\ pc = "failed"
       /\ state = last.input

\* the student field holds None where an index is asked for
C7_Witness ==
    /\ FieldMissed
    /\ Lookup(last.input.student_ast, last.args.name, last.args.index).exc = "TypeError"
    /\ pc = "failed"

\* C8 as stated: when both lookups go through, a student value of None
\* against a solution value that is not None is reported, with the message
\* a student-side lookup failure would get (the description, or the fallback
\* when there is none), and no child is built; in every other case nothing
\* is reported.
C8_NoValueMarker ==
    (/\ Called("check_field")
     /\ BothReal(last.input)
     /\ Lookup(last.input.solution_ast, last.args.name, last.args.index).exc = "none"
     /\ Lookup(last.input.student_ast, last.args.name, last.args.index).exc = "none")
    => IF /\ Lookup(last.input.student_ast, last.args.name, last.args.index).val = None
          /\ Lookup(last.input.solution_ast, last.args.name, last.args.index).val # None
       THEN ReportedOnly(last.res, Or(FieldDescription, MSG_CHECK_FALLBACK))
       ELSE last.res.msgs = <<>> /\ last.res.exc = "none"

RECURSIVE StructEq(_, _)
\* structural equality of two values: tags, field names and field values,
\* in order; the source span plays no part
StructEq(a, b) ==
    /\ a.kind = b.kind
    /\ CASE a.kind = "node" ->
                /\ a.tag = b.tag
                /\ Len(a.fields) = Len(b.fields)
                /\ \A i \in 1..Len(a.fields) :
                      /\ a.fields[i].name = b.fields[i].name
                      /\ StructEq(a.fields[i].value, b.fields[i].value)
         [] a.kind = "list" ->
                /\ Len(a.items) = Len(b.items)
                /\ \A i \in 1..Len(a.items) : StructEq(a.items[i], b.items[i])
         [] a.kind = "str" -> a.val = b.val
         [] OTHER -> TRUE

\* C9. has_equal_ast exact: with both trees real, exact set and no snippet,
\* has_equal_ast returns its State and reports nothing exactly when the two
\* foci have the same repr, and reports exactly one failure otherwise;
\* structurally equal foci always pass, whatever the two source texts.
C9_HasEqualAstExact ==
    (/\ Called("has_equal_ast")
     /\ BothReal(last.input)
     /\ last.args.exact
     /\ last.args.sql = None)
    => /\ IF repr(last.input.student_ast) = repr(last.input.solution_ast)
          THEN last.res = Return(last.input, 0) /\ pc = "running" /\ reports = <<>>
          ELSE /\ last.res.exc = "TestFail"
               /\ Len(last.res.msgs) = 1
               /\ last.res.ret = <<>>
               /\ reports = last.res.msgs
       /\ state = last.input
       /\ StructEq(last.input.student_ast, last.input.solution_ast)
              => last.res = Return(last.input, 0)

\* equal trees from source texts that differ
C9_Witness ==
    /\ Called("has_equal_ast")
    /\ last.args.exact
    /\ last.args.sql = None
    /\ last.input.student_ast.kind = "node"
    /\ last.input.student_code # last.input.solution_code
    /\ last.res = Return(last.input, 0)

RECURSIVE SubValues(_)
\* v and every value under it
SubValues(v) ==
    {v} \cup
    (CASE v.kind = "node" ->
              UNION {SubValues(v.fields[i].value) : i \in 1..Len(v.fields)}
       [] v.kind = "list" -> UNION {SubValues(v.items[i]) : i \in 1..Len(v.items)}
       [] OTHER -> {})

\* every focus a tree of Programs offers
AllFoci == UNION {SubValues(p.ast) : p \in Programs}

\* C10. Sub-match monotonicity: when has_equal_ast(exact = False) with a
\* snippet passes on a student focus T, it passes on every student focus
\* whose repr has the repr of T inside it, the rest of the State and the
\* snippet being the same.
C10_SubMatchMonotone ==
    (/\ Called("has_equal_ast")
     /\ BothReal(last.input)
     /\ ~last.args.exact
     /\ last.args.sql \in Snippets
     /\ last.res.exc = "none")
    => \A larger \in AllFoci :
           Contains(repr(larger), repr(last.input.student_ast))
           => has_equal_ast([last.input EXCEPT !.student_ast = larger],
                            MSG_AST, last.args.sql, "expression", FALSE).exc = "none"

\* a passing sub-match for which a strictly larger focus exists
C10_Witness ==
    /\ Called("has_equal_ast")
    /\ BothReal(last.input)
    /\ ~last.args.exact
    /\ last.args.sql \in Snippets
    /\ last.res.exc = "none"
    /\ \E larger \in AllFoci :
           /\ Len(repr(larger)) > Len(repr(last.input.student_ast))
           /\ Contains(repr(larger), repr(last.input.student_ast))

\* C11. has_parsed_ast: on any State it reports "AST did not parse" exactly
\* when the student tree or the solution tree is a ParseError; otherwise it
\* returns its State, reports nothing and raises nothing.
C11_HasParsedAst ==
    Called("has_parsed_ast")
    => /\ IF ParseFailed(last.input)
          THEN ReportedOnly(last.res, Str("AST did not parse")) /\ pc = "failed"
          ELSE last.res = Return(last.input, 0) /\ pc = "running" /\ reports = <<>>
       /\ state = last.input

\* the solution alone failed to parse, and no parser gave the student tree
C11_Witness ==
    /\ Called("has_parsed_ast")
    /\ last.input.solution_ast = ParseError
    /\ last.input.student_ast = None
    /\ pc = "failed"

\* the text has_code is to search: all the student code on a ParseError,
\* else the span of the student focus
SearchedText(st) ==
    IF st.student_ast = ParseError THEN st.student_code
    ELSE SubSeq(st.student_code, st.student_ast.span[1], st.student_ast.span[2])

\* C12 as stated: has_code searches the whole student code when the student
\* focus is a ParseError and the span of the student focus otherwise; it
\* returns its State and reports nothing exactly when the pattern occurs
\* there, and reports exactly one failure otherwise; a parse failure never
\* makes it skip.
C12_HasCode ==
    Called("has_code")
    => /\ last.res.exc \in {"none", "TestFail"}
       /\ last.res.exc = "none" =>
              /\ last.res = Return(last.input, 0)
              /\ IF last.args.fixed
                 THEN Contains(SearchedText(last.input), last.args.text)
                 ELSE Search(last.args.text, SearchedText(last.input))
       /\ last.res.exc = "TestFail" =>
              /\ Len(last.res.msgs) = 1 /\ last.res.ret = <<>>
              /\ IF last.args.fixed
                 THEN ~Contains(SearchedText(last.input), last.args.text)
                 ELSE ~Search(last.args.text, SearchedText(last.input))

\* C13. Guard fatal on absent tree: a guarded check called on a State with
\* a tree that is None raises TypeError, reports nothing and returns no
\* State, also when the other tree is a ParseError.
C13_GuardFatalOnAbsent ==
    (last.op \in Guarded /\ Absent(last.input))
    => /\ last.res = Raise("TypeError")
       /\ pc = "fatal"
       /\ reports = <<>>
       /\ state = last.input

\* one tree absent, the other a ParseError
C13_Witness ==
    /\ last.op \in Guarded
    /\ last.input.student_ast = ParseError
    /\ last.input.solution_ast = None
    /\ pc = "fatal"

\* C14. Path accumulation (length): the history of the chain's State is as
\* long as the number of check_node / check_field calls that went through;
\* each such call leaves a history that is the earlier one plus one Action,
\* and every other call (a guard skip, has_code, has_equal_ast,
\* has_parsed_ast) leaves the history as it was.
C14_PathLength ==
    /\ [](Len(state.history) = Len(trail))
    /\ [][IF Len(trail') = Len(trail) + 1
          THEN /\ last'.op \in {"check_node", "check_field"}
               /\ Len(state'.history) = Len(state.history) + 1
               /\ SubSeq(state'.history, 1, Len(state.history)) = state.history
          ELSE /\ trail' = trail
               /\ state'.history = state.history]_vars

\* two narrowing calls with a comparison after them
C14_Witness ==
    /\ steps = 3
    /\ Len(state.history) = 2
    /\ last.op = "has_equal_ast"
    /\ state.history[2].type = "check_field"

RECURSIVE Replay(_, _, _)
\* the recorded (name, index) pairs of history applied in order to tree,
\* the i-th check_node step searching with priority prios[i]
Replay(tree, history, prios) ==
    IF history = <<>> THEN Val(tree)
    ELSE LET a == Head(history)
             step == IF a.type = "check_node"
                     THEN ListIndex(select(a.name, tree, Head(prios)), a.index.val)
                     ELSE Lookup(tree, a.name, a.index)
         IN  IF step.exc # "none" THEN step
             ELSE Replay(step.val, Tail(history), Tail(prios))

\* C15 as stated: replaying the (name, index) pairs the history records
\* against the two root trees gives the two foci of the State, whatever
\* priority the check_node calls were given.
C15_AsStated ==
    LET defaults == [i \in 1..Len(state.history) |-> None] IN
    /\ Replay(root.student_ast, state.history, defaults) = Val(state.student_ast)
    /\ Replay(root.solution_ast, state.history, defaults) = Val(state.solution_ast)

\* C15. Path accumulation (replay): replaying the (name, index) pairs the
\* history records against the two root trees, each check_node step with the
\* priority its call was given, gives the two foci of the State.
C15_Replay ==
    /\ Replay(root.student_ast, state.history, trail) = Val(state.student_ast)
    /\ Replay(root.solution_ast, state.history, trail) = Val(state.solution_ast)

\* a focus two steps down that the default priority does not find
C15_Witness ==
    /\ Len(state.history) = 2
    /\ trail[1] = IntV(99)
    /\ state.history[2].type = "check_field"
    /\ Replay(root.student_ast, state.history, <<None, None>>).exc # "none"

\* node, sequence, scalar or nothing
Shape(v) == v.kind

C17_ShapeTolerance ==
    (/\ last.op \in {"has_code", "has_equal_ast", "has_parsed_ast"}
     /\ last.input.history # <<>>
     /\ last.input.history[Len(last.input.history)].type = "check_field"
     /\ Shape(last.input.student_ast) \in {"node", "list", "str"}
     /\ Shape(last.input.solution_ast) \in {"node", "list", "str"})
    => last.res.exc \in {"none", "TestFail"}

\* C18. has_code reads the student side only: with another solution tree
\* and solution text in the State, the same has_code call ends the same way
\* and reports the same message.
C18_HasCodeStudentOnly ==
    Called("has_code")
    => \A p \in Programs :
           LET other == [last.input EXCEPT !.solution_ast = p.ast,
                                           !.solution_code = p.code]
               r == has_code(other, last.args.text, MSG_CODE, last.args.fixed)
           IN  /\ r.exc = last.res.exc
               /\ r.msgs = last.res.msgs
               /\ r.made = last.res.made
               /\ (r.ret = <<>>) = (last.res.ret = <<>>)

\* a has_code failure on a narrowed focus with both trees real
C18_Witness ==
    /\ Called("has_code")
    /\ BothReal(last.input)
    /\ last.input.history # <<>>
    /\ last.res.exc = "TestFail"

\* C20 as stated: from a root with two real trees, no guarded check is ever
\* called on a State with a tree that is None, so none raises the guard's
\* TypeError.
C20_TotalBehindGuard ==
    (BothReal(root) /\ last.op \in Guarded)
    => ~(Absent(last.input) /\ last.res = Raise("TypeError"))

====
